---- MODULE Spec2Model ----
(***************************************************************************)
(* Model of electrode-native's Dependency identity strings                 *)
(* (src/unnamed/part_000) and of the git-backed Cauldron store             *)
(* (src/ern-cauldron-api/src/base-git.js).                                 *)
(*                                                                         *)
(* A string is a sequence of one-character strings; the three regular      *)
(* expressions of Dependency are computed as the JavaScript engine does:   *)
(* leftmost start, greedy groups, backtracking from the longest.           *)
(***************************************************************************)
EXTENDS Integers, Sequences, FiniteSets, TLC

\* ------------------------------------------------------------------ bounds
\* longest input string handed to Dependency.fromString
MaxStrLen == 6
\* longest name, scope or version a Dependency is constructed with
MaxFieldLen == 1

\* ----------------------------------------------------------- identity model
VARIABLES depA, depB, str, parsed, parseOutcome, ignoreVersion, sameResult,
          depPhase

depVars ==
    <<depA, depB, str, parsed, parseOutcome, ignoreVersion, sameResult,
      depPhase>>

\* the characters of the grammar [@scope/]name[@version] and two letters
Letters == {"a", "b"}
Chars == Letters \cup {"@", "/"}

\* JavaScript's undefined: the value of a field the constructor was not given
Undefined == <<"undefined">>

StringsUpTo(n, alphabet) == UNION {[1..k -> alphabet] : k \in 0..n}

\* what a caller passes as a name, a scope or a version: a non-empty word
Field == StringsUpTo(MaxFieldLen, Letters) \ {<<>>}
OptField == Field \cup {Undefined}

\* new Dependency(name, { scope, version })
Dependency(name, scope, version) ==
    [name |-> name, scope |-> scope, version |-> version]

Dependencies ==
    {Dependency(n, s, v) : n \in Field, s \in OptField, v \in OptField}

NoMatch == <<"nomatch">>

Positions(s, c) == {i \in 1..Len(s) : s[i] = c}

Max(S) == CHOOSE x \in S : \A y \in S : y <= x
Min(S) == CHOOSE x \in S : \A y \in S : x <= y

\* /@(.+)\/(.*)@(.*)/ : an '@' at i, a '/' at j with at least one character
\* between, an '@' at k after j. exec returns <<group 1, group 2, group 3>>.
ScopeNameVersionMatches(s) ==
    {m \in Positions(s, "@") \X Positions(s, "/") \X Positions(s, "@") :
        m[1] + 1 < m[2] /\ m[2] < m[3]}

SCOPE_NAME_VERSION_RE(s) ==
    IF ScopeNameVersionMatches(s) = {} THEN NoMatch
    ELSE LET i == Min({m[1] : m \in ScopeNameVersionMatches(s)})
             j == Max({m[2] : m \in {x \in ScopeNameVersionMatches(s) : x[1] = i}})
             k == Max({m[3] : m \in {x \in ScopeNameVersionMatches(s) :
                                        x[1] = i /\ x[2] = j}})
         IN  <<SubSeq(s, i + 1, j - 1), SubSeq(s, j + 1, k - 1),
               SubSeq(s, k + 1, Len(s))>>

\* /@(.+)\/(.+)/ : an '@' at i, a '/' at j with at least one character between
\* and at least one after. exec returns <<group 1, group 2>>.
ScopeNameMatches(s) ==
    {m \in Positions(s, "@") \X Positions(s, "/") :
        m[1] + 1 < m[2] /\ m[2] < Len(s)}

SCOPE_NAME_NO_VERSION_RE(s) ==
    IF ScopeNameMatches(s) = {} THEN NoMatch
    ELSE LET i == Min({m[1] : m \in ScopeNameMatches(s)})
             j == Max({m[2] : m \in {x \in ScopeNameMatches(s) : x[1] = i}})
         IN  <<SubSeq(s, i + 1, j - 1), SubSeq(s, j + 1, Len(s))>>

\* /(.+)@(.+)/ in place of /(.*)@(.*)/: both groups non-empty
NAME_VERSION_RE_nonEmptyGroups(s) ==
    IF {k \in Positions(s, "@") : 1 < k /\ k < Len(s)} = {} THEN NoMatch
    ELSE LET k == Max({p \in Positions(s, "@") : 1 < p /\ p < Len(s)})
         IN  <<SubSeq(s, 1, k - 1), SubSeq(s, k + 1, Len(s))>>

\* /(.*)@(.*)/ : the match starts at the first character and group 1 runs to
\* the last '@'. exec returns <<group 1, group 2>>.
NAME_VERSION_RE(s) ==
    IF Positions(s, "@") = {} THEN NoMatch
    ELSE LET k == Max(Positions(s, "@"))
         IN  <<SubSeq(s, 1, k - 1), SubSeq(s, k + 1, Len(s))>>

\* Dependency.fromString: the cascade of the three expressions, in the
\* order of the source; it has no failing exit.
fromString(s) ==
    IF SCOPE_NAME_VERSION_RE(s) # NoMatch
    THEN Dependency(SCOPE_NAME_VERSION_RE(s)[2],
                    SCOPE_NAME_VERSION_RE(s)[1],
                    SCOPE_NAME_VERSION_RE(s)[3])
    ELSE IF NAME_VERSION_RE(s) # NoMatch
    THEN Dependency(NAME_VERSION_RE(s)[1], Undefined, NAME_VERSION_RE(s)[2])
    ELSE IF SCOPE_NAME_NO_VERSION_RE(s) # NoMatch
    THEN Dependency(SCOPE_NAME_NO_VERSION_RE(s)[2], Undefined,
                    SCOPE_NAME_NO_VERSION_RE(s)[1])
    ELSE Dependency(s, Undefined, Undefined)

\* how Dependency.fromString ends: each of its four branches is a return,
\* and test and exec of a regular expression do not throw on a string
fromStringOutcome(s) == "returned"

\* a field in a `${x ? ... : ''}` test: undefined and '' are falsy
Truthy(f) == f # Undefined /\ f # <<>>

\* Dependency.toString
toString(d) ==
    (IF Truthy(d.scope) THEN <<"@">> \o d.scope \o <<"/">> ELSE <<>>)
    \o d.name
    \o (IF Truthy(d.version) THEN <<"@">> \o d.version ELSE <<>>)

\* same without the comparison of the scopes
same_ignoringScope(a, b, ignore) ==
    /\ a.name = b.name
    /\ (ignore \/ a.version = b.version)

\* Dependency.same
same(a, b, ignore) ==
    /\ a.name = b.name
    /\ a.scope = b.scope
    /\ (ignore \/ a.version = b.version)

\* Dependency.withoutVersion
withoutVersion(d) == Dependency(d.name, d.scope, Undefined)

NoDependency == Dependency(Undefined, Undefined, Undefined)

\* the state of the Cauldron store, which the Dependency operations leave alone
VARIABLES tasks, branch, remote, commits, gitDir, remoteUrl, tracking, head,
          readmeFile, doc, lock, pc, req, txDoc, out, startHead, failures, ops

gitVars ==
    <<tasks, branch, remote, commits, gitDir, remoteUrl, tracking, head,
      readmeFile, doc, lock, pc, req, txDoc, out, startHead, failures, ops>>

\* the arguments and results of the resolve step, taken on its own
VARIABLES rPhase, rMiniapps, rStored, rInput, rResolved, rExisting, rFinal

resVars == <<rPhase, rMiniapps, rStored, rInput, rResolved, rExisting, rFinal>>

vars == <<depVars, gitVars, resVars>>

\* no resolve step is looked at on its own
ResIdle ==
    /\ rPhase = "unused"
    /\ rMiniapps = <<>>
    /\ rStored = <<>>
    /\ rInput = <<>>
    /\ rResolved = <<>>
    /\ rExisting = <<>>
    /\ rFinal = <<>>

\* either a Dependency has been constructed, or a string is about to be parsed
DepInit ==
    /\ \/ depPhase = "built" /\ depA \in Dependencies
       \/ depPhase = "input" /\ depA = NoDependency
    /\ depB = NoDependency
    /\ str = <<>>
    /\ parsed = NoDependency
    /\ parseOutcome = "none"
    /\ ignoreVersion = FALSE
    /\ sameResult = FALSE

\* str = depA.toString()
Format ==
    /\ depPhase = "built"
    /\ str' = toString(depA)
    /\ depPhase' = "formatted"
    /\ UNCHANGED <<depA, depB, parsed, parseOutcome, ignoreVersion, sameResult, gitVars, resVars>>

\* parsed = Dependency.fromString(str), str being depA.toString()
ParseBack ==
    /\ depPhase = "formatted"
    /\ parsed' = fromString(str)
    /\ parseOutcome' = fromStringOutcome(str)
    /\ depPhase' = "roundtrip"
    /\ UNCHANGED <<depA, depB, str, ignoreVersion, sameResult, gitVars, resVars>>

\* parsed = Dependency.fromString(s) for any input string s
Parse ==
    /\ depPhase = "input"
    /\ \E s \in StringsUpTo(MaxStrLen, Chars) :
        /\ str' = s
        /\ parsed' = fromString(s)
        /\ parseOutcome' = fromStringOutcome(s)
    /\ depPhase' = "parsed"
    /\ UNCHANGED <<depA, depB, ignoreVersion, sameResult, gitVars, resVars>>

\* sameResult = Dependency.same(depA, b, { ignoreVersion })
Compare ==
    /\ depPhase = "built"
    /\ \E b \in Dependencies, ignore \in BOOLEAN :
        /\ depB' = b
        /\ ignoreVersion' = ignore
        /\ sameResult' = same(depA, b, ignore)
    /\ depPhase' = "compared"
    /\ UNCHANGED <<depA, str, parsed, parseOutcome, gitVars, resVars>>

\* sameResult = Dependency.same(depA, depA.withoutVersion(), { ignoreVersion })
CompareWithoutVersion ==
    /\ depPhase = "built"
    /\ \E ignore \in BOOLEAN :
        /\ depB' = withoutVersion(depA)
        /\ ignoreVersion' = ignore
        /\ sameResult' = same(depA, withoutVersion(depA), ignore)
    /\ depPhase' = "stripped"
    /\ UNCHANGED <<depA, str, parsed, parseOutcome, gitVars, resVars>>

DepNext ==
    \/ Format
    \/ ParseBack
    \/ Parse
    \/ Compare
    \/ CompareWithoutVersion


\* the identity model at rest, while the store is exercised
DepIdle ==
    /\ depPhase = "unused"
    /\ depA = NoDependency
    /\ depB = NoDependency
    /\ str = <<>>
    /\ parsed = NoDependency
    /\ parseOutcome = "none"
    /\ ignoreVersion = FALSE
    /\ sameResult = FALSE

\* ------------------------------------------------------- the Cauldron store
\* operations (transactions and update flows) started in one run
MaxOps == 3
\* git or file operations that fail for a reason outside the program
MaxFailures == 1
\* highest MiniApp or native dependency version
MaxVersion == 2
\* MiniApps named in one call of the update-miniapps handler
MaxMiniApps == 2


\* two machines, each with its own working copy of the one remote repository;
\* t1 and t2 are two asynchronous callers in the process of machine A
Machines == {"A", "B"}
Tasks == {"t1", "t2", "t3"}
MachineOf(t) == IF t = "t3" THEN "B" ELSE "A"

\* the branch names a BaseGit may be constructed with ('master' by default)
Branches == {"master", "dev"}
\* the branch `git init` creates and every commit of the working copy is on
LocalBranch == "master"
\* the branch name written in sync: fetchAsync(GIT_REMOTE_NAME, 'master') and
\* resetAsync(['--hard', `${GIT_REMOTE_NAME}/master`])
SyncBranch == "master"

Modules == {"x", "y"}
Versions == 1..MaxVersion

\* the document of one Version: the version of each MiniApp of its container
\* (0: not in the container) and the version of its native dependency (0: none)
\* and its released flag
Doc ==
    [miniapps : [Modules -> 0..MaxVersion], nativeDeps : 0..MaxVersion,
     released : BOOLEAN]
EmptyDoc ==
    [miniapps |-> [m \in Modules |-> 0], nativeDeps |-> 0, released |-> FALSE]
\* no document file in the working copy or in a commit
NoDoc == [absent |-> TRUE]

NoReq == [kind |-> "none"]
\* the outcome of the last operation a caller has seen end
NoOut ==
    [err |-> "none", at |-> "none", cause |-> "none",
     op |-> [kind |-> "none", m |-> "none"]]

\* the commit c and the commits it descends from
RECURSIVE History(_)
History(c) == IF c = 0 THEN {} ELSE {c} \cup History(commits[c].parent)

\* the commits the remote branch holds
Published == History(remote[SyncBranch])

\* no working copy yet on any machine, no caller at work
FreshMachines ==
    /\ gitDir = [w \in Machines |-> FALSE]
    /\ remoteUrl = [w \in Machines |-> "none"]
    /\ tracking = [w \in Machines |-> [b \in Branches |-> 0]]
    /\ head = [w \in Machines |-> 0]
    /\ readmeFile = [w \in Machines |-> "absent"]
    /\ doc = [w \in Machines |-> NoDoc]
    /\ lock = [w \in Machines |-> "free"]
    /\ pc = [t \in Tasks |-> "idle"]
    /\ req = [t \in Tasks |-> NoReq]
    /\ txDoc = [t \in Tasks |-> NoDoc]
    /\ out = [t \in Tasks |-> NoOut]
    /\ startHead = [t \in Tasks |-> 0]
    /\ failures = 0
    /\ ops = 0

GitStart ==
    /\ remote = [b \in Branches |-> 0]
    /\ commits = <<>>
    /\ FreshMachines

\* the callers at work: one on each machine, or two in the process of A
Deployments == {{"t1", "t3"}, {"t1", "t2"}}

\* new BaseGit(ernPath, repository, branch) on machine A, and
\* new BaseGit(ernPath, repository) on machine B
Init ==
    /\ DepIdle
    /\ ResIdle
    /\ GitStart
    /\ tasks \in Deployments
    /\ branch \in {b \in [Machines -> Branches] : b["B"] = "master"}

\* Dependency values on their own: no caller of the store is deployed
InitDependency ==
    /\ DepInit
    /\ ResIdle
    /\ GitStart
    /\ tasks = {}
    /\ branch = [w \in Machines |-> "master"]

SpecDependency == InitDependency /\ [][DepNext]_vars

\* ----------------------------------------------- the end of an operation
\* what a caller asked for, as its outcome is reported
Asked(r) == [kind |-> r.kind, m |-> IF r.kind = "add" THEN r.m ELSE "none"]

Err(t, e, c) == [err |-> e, at |-> pc[t], cause |-> c, op |-> Asked(req[t])]
Ok(t) == [err |-> "ok", at |-> "none", cause |-> "none", op |-> Asked(req[t])]

\* the operation of task t ends with outcome o; the transaction lock is
\* released on every exit path
Finish(t, o) ==
    /\ pc' = [pc EXCEPT ![t] = "idle"]
    /\ out' = [out EXCEPT ![t] = o]
    /\ lock' = [lock EXCEPT ![MachineOf(t)] = IF @ = t THEN "free" ELSE @]
    /\ txDoc' = [txDoc EXCEPT ![t] = NoDoc]
    /\ req' = [req EXCEPT ![t] = NoReq]
    /\ startHead' = [startHead EXCEPT ![t] = 0]

\* the awaited git or file operation of task t rejects for a reason outside
\* the program (network, disk); the error propagates to the caller
EnvFails(t) ==
    /\ failures < MaxFailures
    /\ failures' = failures + 1
    /\ Finish(t, Err(t, "SyncError", "env"))

Step(t, next) ==
    /\ pc' = [pc EXCEPT ![t] = next]
    /\ UNCHANGED <<out, lock, txDoc, req, startHead, failures>>

\* --------------------------------------------------------------- BaseGit
\* git push upstream <this.branch>: the local branch of that name is
\* published; git refuses when there is no such local branch and when the
\* remote branch is not an ancestor of it
PushResult(w) ==
    IF branch[w] # LocalBranch \/ head[w] = 0 THEN "refspec"
    ELSE IF remote[branch[w]] = 0 \/ remote[branch[w]] \in History(head[w])
    THEN "ok"
    ELSE "rejected"

\* the remote and the remote-tracking ref after a successful push
Pushed(w) ==
    /\ remote' = [remote EXCEPT ![branch[w]] = head[w]]
    /\ tracking' = [tracking EXCEPT ![w][branch[w]] = head[w]]

\* sync, line 43: initAsync in a directory that has no .git
SyncInit(t) ==
    /\ pc[t] = "init"
    /\ \/ /\ gitDir' = [gitDir EXCEPT ![MachineOf(t)] = TRUE]
          /\ Step(t, "addRemote")
       \/ /\ EnvFails(t)
          /\ UNCHANGED gitDir
    /\ UNCHANGED <<depVars, resVars, tasks, branch, remote, commits, remoteUrl, tracking, head,
                   readmeFile, doc, ops>>

\* sync, line 44: addRemoteAsync(GIT_REMOTE_NAME, this.repository)
SyncAddRemote(t) ==
    /\ pc[t] = "addRemote"
    /\ \/ /\ remoteUrl' = [remoteUrl EXCEPT ![MachineOf(t)] = "repository"]
          /\ Step(t, "setUrl")
       \/ /\ EnvFails(t)
          /\ UNCHANGED remoteUrl
    /\ UNCHANGED <<depVars, resVars, tasks, branch, remote, commits, gitDir, tracking, head,
                   readmeFile, doc, ops>>

\* sync, lines 47-52: git remote set-url upstream <this.repository>; git
\* refuses when no remote of that name is registered
SyncSetUrl(t) ==
    /\ pc[t] = "setUrl"
    /\ \/ /\ remoteUrl[MachineOf(t)] # "none"
          /\ remoteUrl' = [remoteUrl EXCEPT ![MachineOf(t)] = "repository"]
          /\ Step(t, "fetch")
       \/ /\ remoteUrl[MachineOf(t)] = "none"
          /\ Finish(t, Err(t, "SyncError", "noRemote"))
          /\ UNCHANGED <<remoteUrl, failures>>
       \/ /\ EnvFails(t)
          /\ UNCHANGED remoteUrl
    /\ UNCHANGED <<depVars, resVars, tasks, branch, remote, commits, gitDir, tracking, head,
                   readmeFile, doc, ops>>

\* what git says when the remote has no branch of the name that is fetched
NoRemoteRef == "Couldn't find remote ref master"

\* a catch that takes every fetch error for an empty remote
CouldntFindRemoteRef_any(e) == TRUE

\* sync, line 57: /Couldn't find remote ref master/.test(e + '')
CouldntFindRemoteRef(e) == e = NoRemoteRef

\* sync, lines 54-62: fetchAsync(GIT_REMOTE_NAME, 'master'); "Couldn't find
\* remote ref master" leads to _doInitialCommit, any other error is rethrown
SyncFetch(t) ==
    /\ pc[t] = "fetch"
    /\ \/ /\ remote[SyncBranch] # 0
          /\ tracking' = [tracking EXCEPT
                            ![MachineOf(t)][SyncBranch] = remote[SyncBranch]]
          /\ Step(t, "resetF")
       \/ /\ remote[SyncBranch] = 0
          /\ CouldntFindRemoteRef(NoRemoteRef)
          /\ Step(t, "bootWrite")
          /\ UNCHANGED tracking
       \/ /\ CouldntFindRemoteRef("other")
          /\ failures < MaxFailures
          /\ failures' = failures + 1
          /\ pc' = [pc EXCEPT ![t] = "bootWrite"]
          /\ UNCHANGED <<out, lock, txDoc, req, startHead, tracking>>
       \/ /\ ~CouldntFindRemoteRef("other")
          /\ EnvFails(t)
          /\ UNCHANGED tracking
    /\ UNCHANGED <<depVars, resVars, tasks, branch, remote, commits, gitDir, remoteUrl, head,
                   readmeFile, doc, ops>>

\* _doInitialCommit, lines 68-70: nothing is done when README.md exists,
\* else the file is written
BootWrite(t) ==
    /\ pc[t] = "bootWrite"
    /\ \/ /\ readmeFile[MachineOf(t)] # "absent"
          /\ Step(t, "resetB")
          /\ UNCHANGED readmeFile
       \/ /\ readmeFile[MachineOf(t)] = "absent"
          /\ readmeFile' = [readmeFile EXCEPT ![MachineOf(t)] = "untracked"]
          /\ Step(t, "bootAdd")
       \/ /\ readmeFile[MachineOf(t)] = "absent"
          /\ EnvFails(t)
          /\ UNCHANGED readmeFile
    /\ UNCHANGED <<depVars, resVars, tasks, branch, remote, commits, gitDir, remoteUrl, tracking, head,
                   doc, ops>>

\* _doInitialCommit, line 71: addAsync('README.md')
BootAdd(t) ==
    /\ pc[t] = "bootAdd"
    /\ \/ /\ readmeFile' = [readmeFile EXCEPT ![MachineOf(t)] = "tracked"]
          /\ Step(t, "bootCommit")
       \/ /\ EnvFails(t)
          /\ UNCHANGED readmeFile
    /\ UNCHANGED <<depVars, resVars, tasks, branch, remote, commits, gitDir, remoteUrl, tracking, head,
                   doc, ops>>

\* git commit: the index becomes a commit on top of HEAD
NewCommit(w) ==
    [parent |-> head[w], readme |-> readmeFile[w] = "tracked", doc |-> doc[w]]

\* _doInitialCommit, line 72: commitAsync('First Commit!')
BootCommit(t) ==
    /\ pc[t] = "bootCommit"
    /\ \/ /\ commits' = Append(commits, NewCommit(MachineOf(t)))
          /\ head' = [head EXCEPT ![MachineOf(t)] = Len(commits) + 1]
          /\ Step(t, "bootPush")
       \/ /\ EnvFails(t)
          /\ UNCHANGED <<commits, head>>
    /\ UNCHANGED <<depVars, resVars, tasks, branch, remote, gitDir, remoteUrl, tracking, readmeFile,
                   doc, ops>>

\* _doInitialCommit, line 73, and push, lines 37-39
BootPush(t) ==
    /\ pc[t] = "bootPush"
    /\ \/ /\ PushResult(MachineOf(t)) = "ok"
          /\ Pushed(MachineOf(t))
          /\ Step(t, "resetB")
       \/ /\ PushResult(MachineOf(t)) # "ok"
          /\ Finish(t, Err(t, "SyncError", PushResult(MachineOf(t))))
          /\ UNCHANGED <<remote, tracking, failures>>
       \/ /\ EnvFails(t)
          /\ UNCHANGED <<remote, tracking>>
    /\ UNCHANGED <<depVars, resVars, tasks, branch, commits, gitDir, remoteUrl, head, readmeFile,
                   doc, ops>>

\* git reset --hard HEAD in place of upstream/master
ResetTarget_head(w) == head[w]

\* the ref `${GIT_REMOTE_NAME}/master` of line 64
ResetTarget(w) == tracking[w][SyncBranch]

\* git reset --mixed in place of --hard: the files are left as they are
DocAfterReset_mixed(w, c) == doc[w]

\* the document file after git reset --hard c: the commit's
DocAfterReset(w, c) == commits[c].doc

\* README.md after git reset --hard c: a tracked file becomes the commit's,
\* a file git does not track is left alone
ReadmeAfterReset(w, c) ==
    IF commits[c].readme THEN "tracked"
    ELSE IF readmeFile[w] = "untracked" THEN "untracked"
    ELSE "absent"

\* sync, line 64: resetAsync(['--hard', 'upstream/master']); git refuses when
\* the ref does not exist. The call returns and sync with it.
SyncReset(t) ==
    /\ pc[t] \in {"resetF", "resetB"}
    /\ \/ /\ ResetTarget(MachineOf(t)) # 0
          /\ head' = [head EXCEPT ![MachineOf(t)] = ResetTarget(MachineOf(t))]
          /\ doc' = [doc EXCEPT ![MachineOf(t)] =
                DocAfterReset(MachineOf(t), ResetTarget(MachineOf(t)))]
          /\ readmeFile' = [readmeFile EXCEPT ![MachineOf(t)] =
                ReadmeAfterReset(MachineOf(t), ResetTarget(MachineOf(t)))]
          /\ Step(t, IF pc[t] = "resetF" THEN "syncedF" ELSE "syncedB")
       \/ /\ ResetTarget(MachineOf(t)) = 0
          /\ Finish(t, Err(t, "SyncError", "noRef"))
          /\ UNCHANGED <<head, doc, readmeFile, failures>>
       \/ /\ EnvFails(t)
          /\ UNCHANGED <<head, doc, readmeFile>>
    /\ UNCHANGED <<depVars, resVars, tasks, branch, remote, commits, gitDir, remoteUrl, tracking, ops>>

\* ------------------------------------------- resolver and store documents
\* the document a reader gets from a working copy or a commit: a missing
\* file reads as the empty document
Load(d) == IF d = NoDoc THEN EmptyDoc ELSE d

\* the native dependency version MiniApp m declares at its version v: each
\* version of x needs the native dependency at its own number, every
\* version of y needs it at version 1
DeclaredNative(m, v) == IF m = "x" THEN v ELSE 1

\* the package paths a caller may pass as `miniapps`: a list of MiniApps,
\* each with a version; nothing keeps a base path from being named twice
PackagePaths == [m : Modules, v : Versions]
Updates ==
    UNION {[1..n -> PackagePaths] : n \in 1..MaxMiniApps}

\* the base paths of a list of package paths
BasePaths(paths) == {paths[i].m : i \in 1..Len(paths)}

\* cauldron.getContainerMiniApps: the container as a list of package paths
ModuleOrder == <<"x", "y">>
ContainerMiniApps(stored) ==
    LET all == [i \in 1..Len(ModuleOrder) |->
                    [m |-> ModuleOrder[i], v |-> stored[ModuleOrder[i]]]]
        IsIn(e) == e.v # 0
    IN  SelectSeq(all, IsIn)

\* lodash uniqBy on 'basePath': the first entry of each base path
RECURSIVE UniqByBasePath(_)
UniqByBasePath(paths) ==
    IF paths = <<>> THEN <<>>
    ELSE LET front == UniqByBasePath(SubSeq(paths, 1, Len(paths) - 1))
             last == paths[Len(paths)]
         IN  IF last.m \in BasePaths(front) THEN front
             ELSE Append(front, last)

\* _.xorBy(miniAppsDependencyPaths, miniAppsInCauldron, 'basePath'): the
\* entries whose base path is in exactly one of the two lists
XorByBasePath(updated, stored) ==
    LET OnlyInUpdated(e) == e.m \notin BasePaths(stored)
        OnlyInStored(e) == e.m \notin BasePaths(updated)
    IN  UniqByBasePath(SelectSeq(updated, OnlyInUpdated)
                       \o SelectSeq(stored, OnlyInStored))

\* [...miniAppsObjs, ...nonUpdatedMiniAppsInCauldronObjs]
ResolverInput(updated, stored) ==
    updated \o XorByBasePath(updated, ContainerMiniApps(stored))

\* resolveNativeDependenciesVersionsOfMiniApps: the distinct declared
\* versions; more than one is a conflict, the highest is the default pick
DeclaredVersions(input) ==
    {DeclaredNative(input[i].m, input[i].v) : i \in 1..Len(input)}

Resolve(input) ==
    [resolved |-> IF DeclaredVersions(input) = {} THEN 0
                  ELSE Max(DeclaredVersions(input)),
     conflicts |-> Cardinality(DeclaredVersions(input)) > 1]

\* a merge in which the resolved version always wins
RetainHighestVersions_resolvedWins(resolved, existing) ==
    IF resolved # 0 THEN resolved ELSE existing

\* retainHighestVersions(resolved, existing) for one identity (0: the list
\* has no entry of that identity)
RetainHighestVersions(resolved, existing) ==
    IF resolved >= existing THEN resolved ELSE existing

\* an inverted conflict policy
ThrowIfConflict_inverted(force) == force

\* handler line 221: throwIfConflict: !force
ThrowIfConflict(force) == ~force

\* logNativeDependenciesConflicts(nativeDependencies, { throwIfConflict })
ConflictsAreFatal(nativeDependencies, force) ==
    nativeDependencies.conflicts /\ ThrowIfConflict(force)

\* cauldron.syncContainerMiniApps(napDescriptor, paths): each path in turn
\* replaces the version of its MiniApp in the container
RECURSIVE SyncContainerMiniApps(_, _)
SyncContainerMiniApps(stored, paths) ==
    IF paths = <<>> THEN stored
    ELSE SyncContainerMiniApps(
            [stored EXCEPT ![paths[1].m] = paths[1].v], Tail(paths))

\* ------------------------------------------------------ callers of the store
\* a transaction whose mutation adds MiniApp m at version v to the container
StartAdd(t) ==
    /\ t \in tasks
    /\ pc[t] = "idle"
    /\ ops < MaxOps
    /\ \E m \in Modules, v \in Versions :
        req' = [req EXCEPT ![t] = [kind |-> "add", m |-> m, v |-> v]]
    /\ pc' = [pc EXCEPT ![t] = "begin"]
    /\ ops' = ops + 1
    /\ UNCHANGED <<depVars, resVars, tasks, branch, remote, commits, gitDir, remoteUrl,
                   tracking, head, readmeFile, doc, lock, txDoc, out,
                   startHead, failures>>

\* the document of the Version as the store's readers return it
StoredDoc == Load(commits[remote[SyncBranch]].doc)

\* the checks of handler lines 149-179 on the MiniApps to update: each is in
\* the container, at another version
ChecksPass(miniapps, stored) ==
    \A i \in 1..Len(miniapps) :
        /\ stored[miniapps[i].m] # 0
        /\ stored[miniapps[i].m] # miniapps[i].v

\* update miniapps handler, lines 141-232: the checks (the descriptor is in
\* the Cauldron, each MiniApp is in the container at another version), the
\* resolve step, and the conflict policy; a conflict without --force throws
StartUpdate(t) ==
    /\ t \in tasks
    /\ pc[t] = "idle"
    /\ ops < MaxOps
    /\ remote[SyncBranch] # 0
    /\ \E miniapps \in Updates, force \in BOOLEAN :
        /\ ChecksPass(miniapps, StoredDoc.miniapps)
        /\ LET nativeDependencies ==
                   Resolve(ResolverInput(miniapps, StoredDoc.miniapps))
               cauldronDependencies == StoredDoc.nativeDeps
               finalNativeDependencies ==
                   RetainHighestVersions(nativeDependencies.resolved,
                                         cauldronDependencies)
           IN  IF ConflictsAreFatal(nativeDependencies, force)
               THEN /\ out' = [out EXCEPT ![t] =
                        [err |-> "ConflictError", at |-> "resolve",
                         cause |-> "conflict",
                         op |-> [kind |-> "update", m |-> "none",
                                 force |-> force]]]
                    /\ UNCHANGED <<pc, req>>
               ELSE /\ req' = [req EXCEPT ![t] =
                        [kind |-> "update", paths |-> miniapps,
                         force |-> force,
                         conflicts |-> nativeDependencies.conflicts,
                         resolved |-> nativeDependencies.resolved,
                         existing |-> cauldronDependencies,
                         final |-> finalNativeDependencies]]
                    /\ pc' = [pc EXCEPT ![t] = "begin"]
                    /\ UNCHANGED out
    /\ ops' = ops + 1
    /\ UNCHANGED <<depVars, resVars, tasks, branch, remote, commits, gitDir, remoteUrl,
                   tracking, head, readmeFile, doc, lock, txDoc, startHead,
                   failures>>

\* ------------------------------------------------------ transaction engine
\* a transaction that begins without looking at the lock
Acquire_noLock(t) ==
    /\ pc[t] = "begin"
    /\ lock' = [lock EXCEPT ![MachineOf(t)] = t]
    /\ startHead' = [startHead EXCEPT ![t] = head[MachineOf(t)]]
    /\ pc' = [pc EXCEPT ![t] = IF gitDir[MachineOf(t)] THEN "setUrl" ELSE "init"]
    /\ UNCHANGED <<depVars, resVars, tasks, branch, remote, commits, gitDir, remoteUrl,
                   tracking, head, readmeFile, doc, failures, ops, out, txDoc,
                   req>>

\* step 1: the process-wide lock is taken, or the transaction fails fast;
\* step 2 begins: sync, line 42, looks for .git
Acquire(t) ==
    /\ pc[t] = "begin"
    /\ \/ /\ lock[MachineOf(t)] = "free"
          /\ lock' = [lock EXCEPT ![MachineOf(t)] = t]
          /\ startHead' = [startHead EXCEPT ![t] = head[MachineOf(t)]]
          /\ pc' = [pc EXCEPT ![t] =
                      IF gitDir[MachineOf(t)] THEN "setUrl" ELSE "init"]
          /\ UNCHANGED <<out, txDoc, req>>
       \/ /\ lock[MachineOf(t)] # "free"
          /\ Finish(t, Err(t, "LockContentionError", "lock"))
    /\ UNCHANGED <<depVars, resVars, tasks, branch, remote, commits, gitDir, remoteUrl,
                   tracking, head, readmeFile, doc, failures, ops>>

\* step 4: sync has returned; the document is loaded from the working copy
LoadDoc(t) ==
    /\ pc[t] \in {"syncedF", "syncedB"}
    /\ txDoc' = [txDoc EXCEPT ![t] = Load(doc[MachineOf(t)])]
    /\ pc' = [pc EXCEPT ![t] = "mutate"]
    /\ UNCHANGED <<depVars, resVars, tasks, branch, remote, commits, gitDir, remoteUrl, tracking, head,
                   readmeFile, doc, lock, req, out, startHead, failures, ops>>

\* mutators that let a released Version be changed
MutatorRefuses_never(d) == FALSE

\* the mutators of the Document Model enforce the invariants of a Version:
\* the module and dependency lists of a released Version are immutable
MutatorRefuses(d) == d.released

\* the first store call of the mutation closure: the add of a MiniApp that
\* is not in the container yet, or handler lines 243-246, syncContainerMiniApps
MutatedMiniApps(d, r) ==
    IF r.kind = "add"
    THEN [d EXCEPT !.miniapps[r.m] = r.v]
    ELSE [d EXCEPT !.miniapps = SyncContainerMiniApps(d.miniapps, r.paths)]

\* a closure that writes the resolved list without the merge
NativeDependenciesToSync_resolved(r) == r.resolved

\* handler lines 247-250: the list handed to syncContainerNativeDependencies
\* is finalNativeDependencies
NativeDependenciesToSync(r) == r.final

\* cauldron.syncContainerNativeDependencies: the version of the dependency
\* is replaced
SyncContainerNativeDependencies(d, dependencies) ==
    [d EXCEPT !.nativeDeps = dependencies]

\* an abort that swallows the error of the closure
AbortTransaction_swallows(t) == Finish(t, Ok(t))

\* step 5, the closure has thrown: the transaction ends with nothing written
\* nor committed, and the error goes to the caller
AbortTransaction(t) == Finish(t, Err(t, "TransactionAbortedError", "closure"))

\* step 5: the closure runs on the loaded document
Mutate(t) ==
    /\ pc[t] = "mutate"
    /\ \/ /\ ~MutatorRefuses(txDoc[t])
          /\ req[t].kind = "add" => txDoc[t].miniapps[req[t].m] = 0
          /\ txDoc' = [txDoc EXCEPT ![t] = MutatedMiniApps(txDoc[t], req[t])]
          /\ pc' = [pc EXCEPT ![t] =
                      IF req[t].kind = "add" THEN "persist" ELSE "mutate2"]
          /\ UNCHANGED <<out, lock, req, startHead>>
       \/ AbortTransaction(t)
    /\ UNCHANGED <<depVars, resVars, tasks, branch, remote, commits, gitDir, remoteUrl, tracking, head,
                   readmeFile, doc, failures, ops>>

\* handler lines 247-250: syncContainerNativeDependencies
Mutate2(t) ==
    /\ pc[t] = "mutate2"
    /\ \/ /\ ~MutatorRefuses(txDoc[t])
          /\ txDoc' = [txDoc EXCEPT ![t] =
                SyncContainerNativeDependencies(txDoc[t],
                                                NativeDependenciesToSync(req[t]))]
          /\ pc' = [pc EXCEPT ![t] = "persist"]
          /\ UNCHANGED <<out, lock, req, startHead>>
       \/ AbortTransaction(t)
    /\ UNCHANGED <<depVars, resVars, tasks, branch, remote, commits, gitDir, remoteUrl, tracking, head,
                   readmeFile, doc, failures, ops>>

\* step 6: the document is written to the working copy and staged
Persist(t) ==
    /\ pc[t] = "persist"
    /\ \/ /\ doc' = [doc EXCEPT ![MachineOf(t)] = txDoc[t]]
          /\ Step(t, "commit")
       \/ /\ EnvFails(t)
          /\ UNCHANGED doc
    /\ UNCHANGED <<depVars, resVars, tasks, branch, remote, commits, gitDir, remoteUrl, tracking, head,
                   readmeFile, ops>>

\* step 6: git commit; with nothing staged git makes no commit
Commit(t) ==
    /\ pc[t] = "commit"
    /\ \/ /\ doc[MachineOf(t)] # commits[head[MachineOf(t)]].doc
          /\ commits' = Append(commits, NewCommit(MachineOf(t)))
          /\ head' = [head EXCEPT ![MachineOf(t)] = Len(commits) + 1]
          /\ Step(t, "push")
       \/ /\ doc[MachineOf(t)] = commits[head[MachineOf(t)]].doc
          /\ Step(t, "push")
          /\ UNCHANGED <<commits, head>>
       \/ /\ EnvFails(t)
          /\ UNCHANGED <<commits, head>>
    /\ UNCHANGED <<depVars, resVars, tasks, branch, remote, gitDir, remoteUrl, tracking, readmeFile,
                   doc, ops>>

\* steps 6 to 8: push, lines 37-39; a failed push is not repeated
Push(t) ==
    /\ pc[t] = "push"
    /\ \/ /\ PushResult(MachineOf(t)) = "ok"
          /\ Pushed(MachineOf(t))
          /\ Finish(t, Ok(t))
          /\ UNCHANGED failures
       \/ /\ PushResult(MachineOf(t)) # "ok"
          /\ Finish(t, Err(t, "SyncError", PushResult(MachineOf(t))))
          /\ UNCHANGED <<remote, tracking, failures>>
       \/ /\ EnvFails(t)
          /\ UNCHANGED <<remote, tracking>>
    /\ UNCHANGED <<depVars, resVars, tasks, branch, commits, gitDir, remoteUrl, head, readmeFile,
                   doc, ops>>

Next ==
    \E t \in Tasks :
        \/ StartAdd(t)
        \/ StartUpdate(t)
        \/ Acquire(t)
        \/ SyncInit(t)
        \/ SyncAddRemote(t)
        \/ SyncSetUrl(t)
        \/ SyncFetch(t)
        \/ BootWrite(t)
        \/ BootAdd(t)
        \/ BootCommit(t)
        \/ BootPush(t)
        \/ SyncReset(t)
        \/ LoadDoc(t)
        \/ Mutate(t)
        \/ Mutate2(t)
        \/ Persist(t)
        \/ Commit(t)
        \/ Push(t)

Spec == Init /\ [][Next]_vars

\* ------------------------------------------- a Cauldron that is in use
\* the document of a Version that earlier transactions have filled: MiniApp
\* x, with or without MiniApp y, the native dependency at the version they
\* declare; the Version may have been released
StoredVersions ==
    [miniapps : {[m \in Modules |-> IF m = "x" THEN 1 ELSE v] : v \in {0, 1}},
     nativeDeps : {1},
     released : BOOLEAN]

\* the remote holds the bootstrap commit and a commit with the document;
\* the machines have no working copy of it yet
InitUpdate ==
    /\ DepIdle
    /\ ResIdle
    /\ \E d \in StoredVersions :
        commits = <<[parent |-> 0, readme |-> TRUE, doc |-> NoDoc],
                    [parent |-> 1, readme |-> TRUE, doc |-> d]>>
    /\ remote = [b \in Branches |-> IF b = SyncBranch THEN 2 ELSE 0]
    /\ FreshMachines
    /\ tasks \in Deployments
    /\ branch = [w \in Machines |-> "master"]

\* the update-miniapps flow, run by the callers against that Cauldron
NextUpdate ==
    \E t \in Tasks :
        \/ StartUpdate(t)
        \/ Acquire(t)
        \/ SyncInit(t)
        \/ SyncAddRemote(t)
        \/ SyncSetUrl(t)
        \/ SyncFetch(t)
        \/ SyncReset(t)
        \/ LoadDoc(t)
        \/ Mutate(t)
        \/ Mutate2(t)
        \/ Persist(t)
        \/ Commit(t)
        \/ Push(t)

SpecUpdate == InitUpdate /\ [][NextUpdate]_vars

\* ----------------------------------------- the resolve step on its own
\* entries of one dependency list
MaxDeps == 2

NativeIds == {"p", "q"}
NativeDeps == [id : NativeIds, v : Versions]

\* a dependency list names an identity at most once
NoDuplicates(list) ==
    \A i \in 1..Len(list), j \in 1..Len(list) :
        i # j => list[i].id # list[j].id

DependencyLists ==
    {l \in UNION {[1..n -> NativeDeps] : n \in 0..MaxDeps} : NoDuplicates(l)}

\* the version a list gives for an identity, 0 when it has no entry for it
VersionIn(list, id) ==
    IF \E i \in 1..Len(list) : list[i].id = id
    THEN list[CHOOSE i \in 1..Len(list) : list[i].id = id].v
    ELSE 0

\* retainHighestVersions(resolved, existing): every identity of resolved at
\* the version retained for it, then the identities only existing has
retainHighestVersions(resolved, existing) ==
    LET merged ==
            [i \in 1..Len(resolved) |->
                [id |-> resolved[i].id,
                 v |-> RetainHighestVersions(
                            resolved[i].v, VersionIn(existing, resolved[i].id))]]
        OnlyExisting(e) == VersionIn(resolved, e.id) = 0
    IN  merged \o SelectSeq(existing, OnlyExisting)

\* the containers a Version may have
Containers == [Modules -> 0..MaxVersion]

\* two dependency lists about to be merged, or the arguments of one call of
\* the update-miniapps handler that has passed its checks
ResInit ==
    /\ rInput = <<>>
    /\ rFinal = <<>>
    /\ \/ /\ rPhase = "lists"
          /\ rResolved \in DependencyLists
          /\ rExisting \in DependencyLists
          /\ rMiniapps = <<>>
          /\ rStored = <<>>
       \/ /\ rPhase = "args"
          /\ rMiniapps \in Updates
          /\ rStored \in {c \in Containers : ChecksPass(rMiniapps, c)}
          /\ rResolved = <<>>
          /\ rExisting = <<>>

\* rFinal = retainHighestVersions(rResolved, rExisting)
Merge ==
    /\ rPhase = "lists"
    /\ rFinal' = retainHighestVersions(rResolved, rExisting)
    /\ rPhase' = "merged"
    /\ UNCHANGED <<rMiniapps, rStored, rInput, rResolved, rExisting,
                   depVars, gitVars>>

\* handler lines 181-211: the list handed to the resolver
BuildResolverInput ==
    /\ rPhase = "args"
    /\ rInput' = ResolverInput(rMiniapps, rStored)
    /\ rPhase' = "built"
    /\ UNCHANGED <<rMiniapps, rStored, rFinal, rResolved, rExisting,
                   depVars, gitVars>>

InitResolver ==
    /\ DepIdle
    /\ ResInit
    /\ GitStart
    /\ tasks = {}
    /\ branch = [w \in Machines |-> "master"]

NextResolver ==
    \/ Merge
    \/ BuildResolverInput

SpecResolver == InitResolver /\ [][NextResolver]_vars

\* ------------------------------------------------- identity model: claims

\* a well-formed name, scope or version: a non-empty word of letters
IsWord(w) == w # <<>> /\ \A i \in 1..Len(w) : w[i] \in Letters

\* C1: for every Dependency d built from a name, an optional scope and an
\* optional version, Dependency.fromString(d.toString()) has the name, the
\* scope and the version of d, absent fields staying absent.
C1_RoundTrip == depPhase = "roundtrip" => parsed = depA

\* C2: fromString decodes each of the four encodings of the grammar
\* [@scope/]name[@version] into the fields the grammar names; the text before
\* '/' is stored as scope, never as version, and the name is never empty.
C2_DecodesGrammar ==
    depPhase = "parsed" =>
        /\ IsWord(str) => parsed = Dependency(str, Undefined, Undefined)
        /\ \A k \in 2..(Len(str) - 1) :
            (/\ str[k] = "@"
             /\ IsWord(SubSeq(str, 1, k - 1))
             /\ IsWord(SubSeq(str, k + 1, Len(str))))
            => parsed = Dependency(SubSeq(str, 1, k - 1), Undefined,
                                   SubSeq(str, k + 1, Len(str)))
        /\ \A j \in 3..(Len(str) - 1) :
            (/\ str[1] = "@"
             /\ str[j] = "/"
             /\ IsWord(SubSeq(str, 2, j - 1))
             /\ IsWord(SubSeq(str, j + 1, Len(str))))
            => parsed = Dependency(SubSeq(str, j + 1, Len(str)),
                                   SubSeq(str, 2, j - 1), Undefined)
        /\ \A j \in 3..(Len(str) - 3), k \in 5..(Len(str) - 1) :
            (/\ str[1] = "@"
             /\ str[j] = "/"
             /\ str[k] = "@"
             /\ j < k
             /\ IsWord(SubSeq(str, 2, j - 1))
             /\ IsWord(SubSeq(str, j + 1, k - 1))
             /\ IsWord(SubSeq(str, k + 1, Len(str))))
            => parsed = Dependency(SubSeq(str, j + 1, k - 1),
                                   SubSeq(str, 2, j - 1),
                                   SubSeq(str, k + 1, Len(str)))

\* C3: same(d, d.withoutVersion(), {ignoreVersion: true}) is true; same(a, b)
\* with ignoreVersion false is false whenever the versions differ; with
\* ignoreVersion true, same(a, b) is true exactly when name and scope are equal.
C3_Same ==
    /\ (depPhase = "stripped" /\ ignoreVersion) => sameResult
    /\ (depPhase = "compared" /\ ~ignoreVersion /\ depA.version # depB.version)
        => ~sameResult
    /\ (depPhase = "compared" /\ ignoreVersion)
        => (sameResult <=> (depA.name = depB.name /\ depA.scope = depB.scope))

\* C3 witness: two dependencies of one name and scope and of different
\* versions compared with ignoreVersion, and found the same
C3_Witness ==
    /\ depPhase = "compared"
    /\ ignoreVersion
    /\ sameResult
    /\ depA.scope # Undefined
    /\ depA.version # depB.version

\* the strings of the grammar [@scope/]name[@version]
WellFormed(s) ==
    \/ IsWord(s)
    \/ \E k \in 2..(Len(s) - 1) :
        /\ s[k] = "@"
        /\ IsWord(SubSeq(s, 1, k - 1))
        /\ IsWord(SubSeq(s, k + 1, Len(s)))
    \/ \E j \in 3..(Len(s) - 1) :
        /\ s[1] = "@"
        /\ s[j] = "/"
        /\ IsWord(SubSeq(s, 2, j - 1))
        /\ \/ IsWord(SubSeq(s, j + 1, Len(s)))
           \/ \E k \in (j + 2)..(Len(s) - 1) :
                /\ s[k] = "@"
                /\ IsWord(SubSeq(s, j + 1, k - 1))
                /\ IsWord(SubSeq(s, k + 1, Len(s)))

\* C4 as stated: parsing an empty or malformed string ('', '@', '@scope/',
\* 'name@', ...) ends in a ParseError, and parsing a well-formed bare name
\* returns a Dependency without error.
C4_MalformedIsParseError ==
    depPhase = "parsed" =>
        /\ ~WellFormed(str) => parseOutcome = "ParseError"
        /\ IsWord(str) => parseOutcome = "returned"

\* C4 as amended: fromString has no error outcome. Every input string, the
\* empty and the malformed ones included, returns a Dependency: '' an empty
\* name, '@' an empty name and an empty version, '@scope/' an empty name and
\* the version 'scope/', 'name@' the name and an empty version; a well-formed
\* bare name returns that name with no scope and no version.
C4_NeverFails ==
    depPhase = "parsed" =>
        /\ parseOutcome = "returned"
        /\ str = <<>> => parsed = Dependency(<<>>, Undefined, Undefined)
        /\ str = <<"@">> => parsed = Dependency(<<>>, Undefined, <<>>)
        /\ \A w \in Field :
            /\ str = <<"@">> \o w \o <<"/">>
                => parsed = Dependency(<<>>, Undefined, w \o <<"/">>)
            /\ str = w \o <<"@">> => parsed = Dependency(w, Undefined, <<>>)
        /\ IsWord(str) => parsed = Dependency(str, Undefined, Undefined)

\* C4 witness: the malformed string '@' was parsed and a Dependency returned
C4_Witness ==
    /\ depPhase = "parsed"
    /\ str = <<"@">>
    /\ parseOutcome = "returned"
    /\ parsed.name = <<>>

\* ---------------------------------------------------------- store: claims

\* a transaction of task t is in flight: it holds the lock of its process
InFlight(t) == pc[t] \notin {"idle", "begin"}

\* the working copy of machine w is the commit c, file for file
WorkingCopyIs(w, c) ==
    /\ head[w] = c
    /\ doc[w] = commits[c].doc
    /\ (readmeFile[w] = "tracked") = commits[c].readme

\* C5: whenever sync returns after a successful fetch, the working copy is
\* the fetched head of the remote branch: no commit that was never pushed and
\* no local change is left in it.
C5_SyncResetsToFetchedHead ==
    \A t \in Tasks :
        pc[t] = "syncedF" =>
            /\ tracking[MachineOf(t)][SyncBranch] # 0
            /\ WorkingCopyIs(MachineOf(t), tracking[MachineOf(t)][SyncBranch])
            /\ head[MachineOf(t)] \in Published

\* C5 witness: sync has returned after a fetch on a working copy that held,
\* when the sync began, a commit that was never pushed
C5_Witness ==
    \E t \in Tasks :
        /\ pc[t] = "syncedF"
        /\ startHead[t] # 0
        /\ startHead[t] \notin Published
        /\ startHead[t] \notin History(head[MachineOf(t)])

\* C6: when the fetch fails because the remote has no commits, sync surfaces
\* no error of its own making (a git operation may still be failed from
\* outside, or the push be refused because the remote was updated meanwhile):
\* it writes, commits and pushes the placeholder and returns with the remote
\* holding that commit and the working copy equal to it.
C6_BootstrapCompletes ==
    \A t \in Tasks :
        /\ (out[t].err = "SyncError"
            /\ out[t].at \in {"bootWrite", "bootAdd", "bootCommit",
                              "bootPush", "resetB"})
            => out[t].cause \in {"env", "rejected"}
        /\ pc[t] = "syncedB" =>
            /\ head[MachineOf(t)] \in Published
            /\ WorkingCopyIs(MachineOf(t), head[MachineOf(t)])

\* the steps of a transaction up to the end of its mutation closure
BeforePersist ==
    {"begin", "init", "addRemote", "setUrl", "fetch", "bootWrite", "bootAdd",
     "bootCommit", "bootPush", "resetF", "resetB", "syncedF", "syncedB",
     "mutate", "mutate2"}

\* C7: in an update-miniapps transaction whose closure throws, no commit and
\* no push happen: no step of the transaction, up to and including the
\* failing store call, adds a commit or moves the remote or the local head,
\* and the failing call ends the transaction with the error handed to the
\* caller and the lock released.
C7_FailedClosureLeavesRemote ==
    [][\A t \in Tasks :
        (pc'[t] # pc[t] /\ req[t].kind = "update" /\ pc[t] \in BeforePersist) =>
            /\ commits' = commits
            /\ remote' = remote
            /\ (pc[t] \in {"mutate", "mutate2"} /\ pc'[t] = "idle") =>
                /\ out'[t].err = "TransactionAbortedError"
                /\ head' = head
                /\ doc' = doc
                /\ lock'[MachineOf(t)] = "free"]_vars

\* C7 witness: the second store call of an update-miniapps closure has
\* thrown, the first having succeeded
C7_Witness ==
    \E t \in Tasks :
        /\ out[t].err = "TransactionAbortedError"
        /\ out[t].at = "mutate2"
        /\ out[t].op.kind = "update"
        /\ pc[t] = "idle"

\* C8: a failed push is not repeated and reaches the caller as an error; it
\* leaves the remote, and the commit made in the working copy, as they were;
\* and no mutation is ever applied to a working copy that holds a commit the
\* remote does not: the sync of the next transaction has removed it.
C8_FailedPushIsDiscardedBySync ==
    /\ [][\A t \in Tasks :
            (pc[t] = "push" /\ pc'[t] # pc[t]) =>
                /\ pc'[t] = "idle"
                /\ out'[t].err \in {"ok", "SyncError"}
                /\ out'[t].err = "ok" =>
                        remote'[branch[MachineOf(t)]] = head[MachineOf(t)]
                /\ out'[t].err = "SyncError" =>
                        /\ out'[t].at = "push"
                        /\ remote' = remote
                        /\ head' = head
                        /\ commits' = commits
                        /\ doc' = doc]_vars
    /\ [](\A t \in Tasks :
            pc[t] \in {"mutate", "mutate2", "persist"} =>
                History(head[MachineOf(t)]) \subseteq Published)

\* C8 witness: a mutation is about to be applied in the transaction that
\* follows one whose push failed, on a working copy that held the unpushed
\* commit when the transaction began
C8_Witness ==
    \E t \in Tasks :
        /\ pc[t] = "mutate"
        /\ out[t].err = "SyncError"
        /\ out[t].at = "push"
        /\ startHead[t] # 0
        /\ startHead[t] \notin Published

\* C9: at most one transaction is in flight in a process: a transaction begun
\* while another holds the lock ends at once with LockContentionError, without
\* a step on the working copy.
C9_OneTransactionPerProcess ==
    /\ [](\A t \in Tasks, s \in Tasks :
            (t # s /\ MachineOf(t) = MachineOf(s)) => ~(InFlight(t) /\ InFlight(s)))
    /\ [][\A t \in Tasks :
            (pc[t] = "begin" /\ pc'[t] # pc[t] /\ lock[MachineOf(t)] # "free") =>
                /\ pc'[t] = "idle"
                /\ out'[t].err = "LockContentionError"
                /\ UNCHANGED <<remote, commits, gitDir, remoteUrl, tracking,
                               head, readmeFile, doc, lock>>]_vars

\* C9 witness: a second transaction has failed with LockContentionError
\* while the first is in flight in the same process
C9_Witness ==
    \E t \in Tasks, s \in Tasks :
        /\ t # s
        /\ MachineOf(t) = MachineOf(s)
        /\ InFlight(s)
        /\ out[t].err = "LockContentionError"

\* C10: the module added by every transaction that has completed is in the
\* remote state: a later transaction, whose sync picked up the commit, has
\* not lost it.
C10_NoLostUpdate ==
    \A t \in Tasks :
        (out[t].err = "ok" /\ out[t].op.kind = "add") =>
            /\ remote[SyncBranch] # 0
            /\ StoredDoc.miniapps[out[t].op.m] # 0

\* C10 witness: two transactions, one after the other on two machines, have
\* each added a module, and the remote holds both
C10_Witness ==
    \E t \in Tasks, s \in Tasks :
        /\ MachineOf(t) # MachineOf(s)
        /\ out[t].err = "ok" /\ out[t].op.kind = "add"
        /\ out[s].err = "ok" /\ out[s].op.kind = "add"
        /\ out[t].op.m # out[s].op.m
        /\ StoredDoc.miniapps[out[t].op.m] # 0
        /\ StoredDoc.miniapps[out[s].op.m] # 0

\* ------------------------------------------------ update flow: claims

\* a step in which caller t passes the resolve step of the update flow
Resolved(t) == req'[t] # req[t] /\ req'[t].kind = "update"

\* caller t is inside the transaction of an update flow, sync done
InStoreUpdate(t) ==
    /\ pc[t] \in {"mutate", "mutate2", "persist", "commit", "push"}
    /\ req[t].kind = "update"

\* C11: in the update-miniapps flow, when the resolver reports a conflict and
\* force is not set, the flow ends with an error at the resolve step and
\* starts no transaction: no store call, no commit, no push; when force is
\* set the flow goes on to the store update with the highest declared
\* version as the resolved version.
C11_ConflictPolicy ==
    /\ [][\A t \in Tasks :
            /\ (out'[t] # out[t] /\ out'[t].err = "ConflictError") =>
                    /\ ~out'[t].op.force
                    /\ pc[t] = "idle" /\ pc'[t] = "idle"
                    /\ req'[t] = NoReq
                    /\ UNCHANGED <<remote, commits, head, doc, txDoc, lock>>
            /\ (Resolved(t) /\ req'[t].conflicts) =>
                    /\ req'[t].force
                    /\ pc'[t] = "begin"
                    /\ \A i \in 1..Len(req'[t].paths) :
                        req'[t].resolved >=
                            DeclaredNative(req'[t].paths[i].m,
                                           req'[t].paths[i].v)
                    /\ \A m \in Modules \ BasePaths(req'[t].paths) :
                        StoredDoc.miniapps[m] # 0 =>
                            req'[t].resolved >=
                                DeclaredNative(m, StoredDoc.miniapps[m])]_vars
    /\ [](\A t \in Tasks :
            (InStoreUpdate(t) /\ req[t].conflicts) => req[t].force)

\* one caller was stopped by a conflict, another forced its update through
\* to the push
C11_Witness ==
    \E t \in Tasks, s \in Tasks :
        /\ out[t].err = "ConflictError"
        /\ pc[s] = "push" /\ InStoreUpdate(s)
        /\ req[s].conflicts /\ req[s].force
        /\ doc[MachineOf(s)].nativeDeps = req[s].final

\* C12: in every run of the update-miniapps flow nothing is written
\* (working copy, commit, remote) by a caller that has not completed its
\* resolve step, and the native dependency version the closure writes, and
\* the one a successful push publishes, is retainHighestVersions of the resolved
\* version and the version that was persisted for the Version when the flow
\* read it.
C12_ResolvePrecedesWrite ==
    [][/\ (<<remote, commits, doc, txDoc>>' # <<remote, commits, doc, txDoc>>) =>
            \E t \in Tasks :
                /\ pc[t] # "idle"
                /\ req[t] # NoReq
                /\ req[t].kind = "update" =>
                        req[t].final = RetainHighestVersions(req[t].resolved, req[t].existing)
       /\ \A t \in Tasks :
            /\ Resolved(t) => req'[t].existing = StoredDoc.nativeDeps
            /\ (req[t].kind = "update" /\ pc[t] = "mutate2"
                    /\ pc'[t] = "persist") =>
                    txDoc'[t].nativeDeps =
                        RetainHighestVersions(req[t].resolved, req[t].existing)
            /\ (req[t].kind = "update" /\ pc[t] = "push"
                    /\ pc'[t] = "idle" /\ out'[t].err = "ok") =>
                    Load(commits'[remote'[SyncBranch]].doc).nativeDeps =
                        RetainHighestVersions(req[t].resolved, req[t].existing)]_vars

\* an update whose resolved version is below the persisted one is about to
\* push the persisted one
C12_Witness ==
    \E t \in Tasks :
        /\ pc[t] = "push" /\ InStoreUpdate(t)
        /\ req[t].resolved < req[t].existing
        /\ doc[MachineOf(t)].nativeDeps = req[t].existing
        /\ head[MachineOf(t)] # remote[SyncBranch]

\* the module list and the native dependency list of two documents agree
SameLists(d, e) ==
    /\ Load(d).miniapps = Load(e).miniapps
    /\ Load(d).nativeDeps = Load(e).nativeDeps

\* C13: once the Version is released, no step changes the module list or
\* the native dependency list the remote holds for it, nor the released
\* flag, and no commit made on top of a released document differs from it
\* in these lists; this includes the update-miniapps flow called with the
\* descriptor of the released Version.
C13_ReleasedIsImmutable ==
    /\ [][StoredDoc.released =>
            /\ SameLists(commits'[remote'[SyncBranch]].doc,
                         commits[remote[SyncBranch]].doc)
            /\ Load(commits'[remote'[SyncBranch]].doc).released]_vars
    /\ [](\A i \in 1..Len(commits) :
            (commits[i].parent # 0
                /\ Load(commits[commits[i].parent].doc).released) =>
                    SameLists(commits[i].doc, commits[commits[i].parent].doc))

\* an update flow has reached its first store call on the released Version
C13_Witness ==
    \E t \in Tasks :
        /\ pc[t] = "mutate"
        /\ req[t].kind = "update"
        /\ txDoc[t].released
        /\ StoredDoc.released

\* ---------------------------------------------- resolve step: claims

\* the entries a list has for an identity
EntriesOf(list, id) == {i \in 1..Len(list) : list[i].id = id}

\* the higher of two versions
Higher(a, b) == IF a >= b THEN a ELSE b

\* C14: retainHighestVersions(resolved, existing) has, for every identity
\* that is in either list, exactly one entry, at the higher of the versions
\* the two lists give for it, and no entry for any other identity; and
\* retainHighestVersions(x, x) = x.
C14_RetainHighestVersions ==
    rPhase = "merged" =>
        /\ \A id \in NativeIds :
            IF VersionIn(rResolved, id) # 0 \/ VersionIn(rExisting, id) # 0
            THEN /\ Cardinality(EntriesOf(rFinal, id)) = 1
                 /\ \A i \in EntriesOf(rFinal, id) :
                        rFinal[i].v = Higher(VersionIn(rResolved, id),
                                             VersionIn(rExisting, id))
            ELSE EntriesOf(rFinal, id) = {}
        /\ rResolved = rExisting => rFinal = rResolved

\* a merge in which the existing list has the higher version of one
\* identity and an identity of its own
C14_Witness ==
    /\ rPhase = "merged"
    /\ \E id \in NativeIds :
        /\ VersionIn(rResolved, id) # 0
        /\ VersionIn(rExisting, id) > VersionIn(rResolved, id)
    /\ \E id \in NativeIds :
        /\ VersionIn(rResolved, id) = 0
        /\ VersionIn(rExisting, id) # 0
    /\ Len(rFinal) = 2

\* ------------------------------------------------------ sync: claims

C16_SyncAndPushAgree ==
    \A t \in Tasks :
        pc[t] \in {"bootPush", "push"} => branch[MachineOf(t)] = SyncBranch

\* C17: a sync that finds the remote empty reaches its hard reset only with
\* the placeholder commit pushed, also when an earlier sync wrote the
\* placeholder file and failed before its push succeeded (branch master).
C17_PartialBootstrapCompletes ==
    \A t \in Tasks :
        (pc[t] = "resetB" /\ branch[MachineOf(t)] = SyncBranch) =>
            /\ tracking[MachineOf(t)][SyncBranch] # 0
            /\ remote[SyncBranch] # 0

\* C18: a sync reaches its fetch only with the remote 'upstream' registered
\* at the repository URL, and no sync arrives at `remote set-url` in a
\* working copy that earlier calls have left without a registered remote.
C18_RemoteIsRegistered ==
    \A t \in Tasks :
        /\ pc[t] = "fetch" => remoteUrl[MachineOf(t)] = "repository"
        /\ pc[t] = "setUrl" => remoteUrl[MachineOf(t)] # "none"

\* the entries the resolver input has for a MiniApp
InputEntries(m) == {i \in 1..Len(rInput) : rInput[i].m = m}

\* C19: when every updated MiniApp is in the container, the list handed to
\* the resolver has exactly one entry for each MiniApp of the container (an
\* updated one at the version asked for, any other at its stored version)
\* and no entry for a MiniApp that is not in the container.
C19_ResolverInputCoversContainer ==
    rPhase = "built" =>
        \A m \in Modules :
            IF rStored[m] = 0 THEN InputEntries(m) = {}
            ELSE /\ Cardinality(InputEntries(m)) = 1
                 /\ \A i \in InputEntries(m) :
                        IF m \in BasePaths(rMiniapps)
                        THEN \E j \in 1..Len(rMiniapps) :
                                rMiniapps[j] = rInput[i]
                        ELSE rInput[i].v = rStored[m]

\* C20: with one caller on each of the two machines, the version the remote
\* holds for the native dependency never decreases from one step to the next.
C20_PersistedVersionNeverDecreases ==
    [][tasks = {"t1", "t3"} =>
            Load(commits'[remote'[SyncBranch]].doc).nativeDeps >=
                Load(commits[remote[SyncBranch]].doc).nativeDeps]_vars

====
